---- MODULE Spec2Model ----
(***************************************************************************)
(* island-di: Di.Container and Di.Scope (src/src/di.ts).                   *)
(*                                                                         *)
(* The container wraps one inversify kernel shared by every scope.  A      *)
(* scope's run() takes a snapshot of the kernel, binds the scope-local     *)
(* overlay (ScopeContext, "<name>@instance" singletons and one dynamic     *)
(* value per registered scope resource), resolves the declared             *)
(* identifiers, restores the kernel and hands the disposers it collected   *)
(* to bluebird's Promise.using around the task.                            *)
(*                                                                         *)
(* JavaScript runs each synchronous stretch to completion, so every        *)
(* registration call and the synchronous part of run() is one action; the  *)
(* asynchronous part of run() (acquisitions settling, the task, the        *)
(* disposers, the settlement of run's promise) is one action per event and *)
(* interleaves freely between scopes.                                      *)
(***************************************************************************)
EXTENDS Integers, Sequences, FiniteSets, TLC

\* ---------------------------------------------------------------- bounds
NScopes == 2             \* Scope objects obtained from the container
MaxScopeResources == 2   \* bindScopeResource calls (length of scopeResources)
MaxInject == 2           \* identifiers passed to one inject(...)
MaxBoundConstants == 2   \* bindConstant calls (length of boundConstants)
MaxWrapperBindings == 2  \* bindObjectWrapper calls for one class
MaxArgs == 3             \* parameters of a Di.scope-decorated method
MaxReruns == 1           \* run() calls on one Scope after its first

Scopes == 1..NScopes

\* ------------------------------------------------------------ identifiers
\* Baz and Resource of the repository's test suite, plus a second resource
\* type.  Baz, Resource and Resource2 can each be declared with inject(...).
TransientClasses == {"Baz"}
ResourceClasses == {"Resource", "Resource2"}
ScopeContextId == "ScopeContext"

\* Further classes and constants of the test suite: FooFoo takes the
\* ScopeContext, Koo takes the constant bound under UninjectableClass, Bar
\* takes Foo; "Constant" is a constant bound under a string identifier and
\* FooWrapper an ObjectWrapper.
ContextClasses == {"FooFoo"}
ConstantIds == {"Constant", "UninjectableClass"}
ValueClasses == {"Koo"}
MethodClasses == {"Foo", "Bar"}
WrapperClasses == {"FooWrapper"}
\* Two more ObjectWrapper classes: another class that is also declared as
\* class FooWrapper (in another module, written with its module here), and
\* BarWrapper.
FactoryClasses == WrapperClasses \cup {"models/FooWrapper", "BarWrapper"}

\* Class.prototype.constructor.name: the name the class was declared with
ClassName(Class) ==
  IF Class = "models/FooWrapper" THEN "FooWrapper" ELSE Class

\* The constructor parameter types reflect-metadata records for a class:
\* constructor(@inject public resource: Resource), and so on.
ParamTypes(cls) ==
  IF cls = "Baz" THEN <<"Resource">>
  ELSE IF cls = "FooFoo" THEN <<ScopeContextId>>
  ELSE IF cls = "Koo" THEN <<"UninjectableClass">>
  ELSE IF cls = "Bar" THEN <<"Foo">>
  ELSE <<>>

\* const instanceBindName = name + '@instance'
InstanceBindName(name) == name \o "@instance"

InjectableIds == TransientClasses \cup ResourceClasses
KernelIds ==
  InjectableIds \cup {ScopeContextId}
    \cup {InstanceBindName(r) : r \in ResourceClasses}
    \cup ContextClasses \cup ConstantIds \cup ValueClasses
    \cup MethodClasses \cup FactoryClasses

SeqsUpTo(S, n) == UNION {[1..m -> S] : m \in 0..n}

VARIABLES
  kernel,          \* inversify binding dictionary: identifier -> bindings
  snapshots,       \* inversify snapshot stack
  scopeResources,  \* Container.scopeResources (shared by every Scope)
  phase,           \* where each Scope object is in its life
  injections,      \* Scope.injections
  disposers,       \* Scope.disposers, in key insertion order
  injected,        \* the objects run() resolved for the task
  insts,           \* every resource instance constructed so far
  idx,             \* position of Promise.using's dispose iterator
  task,            \* what became of the task
  result,          \* how run's promise settled
  uncaught,        \* scopes whose disposer error was thrown from a timer
  objToBindScopeContext,  \* Scope.objToBindScopeContext
  boundConstants,  \* Container.boundConstants
  callArgs,        \* the arguments a Di.scope-decorated method was called with
  methodArgs,      \* the arguments the original method received
  reruns           \* run() calls on a Scope after its first

\* The variables the container registrations and the first run of a scope
\* without context data leave alone.
xvars == <<objToBindScopeContext, boundConstants, callArgs, methodArgs, reruns>>

vars == <<kernel, snapshots, scopeResources, phase, injections, disposers,
          injected, insts, idx, task, result, uncaught, xvars>>

\* ---------------------------------------------------- inversify kernel
Binding(type, impl, scope, owner) ==
  [type |-> type, impl |-> impl, scope |-> scope, owner |-> owner, cache |-> 0]

KBind(k, id, b) == [k EXCEPT ![id] = Append(@, b)]
KUnbind(k, id) == [k EXCEPT ![id] = <<>>]
IsBound(k, id) == k[id] # <<>>
BoundIds(k) == {id \in KernelIds : IsBound(k, id)}

\* kernel.snapshot(): push a copy of the binding dictionary
Snapshot(k, snaps) == Append(snaps, k)
\* Mutant of Restore: the snapshot is popped but the dictionary is kept.
RestoreKeepsOverlay(k, snaps) ==
  [kernel |-> k, snapshots |-> SubSeq(snaps, 1, Len(snaps) - 1)]

\* kernel.restore(): pop the latest snapshot; it replaces the binding
\* dictionary k
Restore(k, snaps) ==
  [kernel |-> snaps[Len(snaps)], snapshots |-> SubSeq(snaps, 1, Len(snaps) - 1)]


\* ------------------------------------------------------------ resolution
\* Resolution runs on a record w holding what it reads and writes: the
\* kernel (singleton caches), every scope's disposers, the instances, and
\* thrown, the exception that is propagating ("": none; "resolveError": the
\* kernel found no binding, or several, for an identifier; "acquireError":
\* a disposerFactory threw; "contextError": a setOnce of bindScopeContext
\* threw; "initializeError": an ObjectWrapper's initialize() threw).  Each step returns [w, val].
Throw(w, e) == [w |-> [w EXCEPT !.thrown = e], val |-> <<>>]
Thrown(w) == w.thrown # ""

\* An object with identity: a resource, a ScopeContext (context: its
\* private context object, empty at construction), a constant value or an
\* ObjectWrapper (calls: the methods ObjectFactory has called on it).
NewInstance(cls, owner) ==
  [type |-> cls, owner |-> owner, acq |-> "none", releases |-> 0,
   context |-> <<>>, calls |-> <<>>]

HasDisposer(ds, name) == \E i \in 1..Len(ds) : ds[i].name = name

\* Mutant of GetInstance: the singleton is cached per class for the whole
\* process instead of per binding.
GetInstanceProcessWide(w, id) ==
  IF Len(w.kernel[id]) # 1 THEN Throw(w, "resolveError")
  ELSE LET b == w.kernel[id][1]
           n == Len(w.insts) + 1
           old == {m \in 1..Len(w.insts) : w.insts[m].type = b.impl}
       IN IF old # {}
          THEN [w |-> w, val |-> <<CHOOSE m \in old : TRUE>>]
          ELSE [w |-> [w EXCEPT !.insts = Append(@, NewInstance(b.impl, b.owner))],
                val |-> <<n>>]

\* kernel.get(id) on a binding made with .to(cls): construct cls, or return the
\* cached instance of an activated inSingletonScope() binding.  Only resource
\* classes (no constructor parameters) are bound this way with a cache.
GetInstance(w, id) ==
  IF Len(w.kernel[id]) # 1 THEN Throw(w, "resolveError")
  ELSE LET b == w.kernel[id][1]
           n == Len(w.insts) + 1
       IN IF b.scope = "Singleton" /\ b.cache # 0
          THEN [w |-> w, val |-> <<b.cache>>]
          ELSE [w |-> [w EXCEPT !.insts = Append(@, NewInstance(b.impl, b.owner)),
                                !.kernel[id] =
                                   <<[b EXCEPT !.cache =
                                        IF b.scope = "Singleton" THEN n ELSE 0]>>],
                val |-> <<n>>]

\* Mutant of DynamicValue: the disposers are kept in one map for the whole
\* process (that of the first scope) instead of one per Scope.
DynamicValueSharedDisposers(w, b, throwing) ==
  LET r == GetInstance(w, InstanceBindName(b.impl)) IN
  IF Thrown(r.w) THEN r
  ELSE IF HasDisposer(r.w.disposers[1], b.impl) THEN r
  ELSE IF b.impl = throwing THEN Throw(r.w, "acquireError")
  ELSE [w |-> [r.w EXCEPT
                 !.disposers[1] =
                    Append(@, [name |-> b.impl, inst |-> r.val[1]]),
                 !.insts[r.val[1]].acq = "pending"],
        val |-> r.val]

\* The producer bindScopeResources gives to toDynamicValue, a closure over
\* the binding scope (b.owner) and the resource (b.impl).  throwing names the
\* resource whose disposerFactory throws on this call ("none": none does).
DynamicValue(w, b, throwing) ==
  LET r == GetInstance(w, InstanceBindName(b.impl)) IN
  IF Thrown(r.w) THEN r
  ELSE IF HasDisposer(r.w.disposers[b.owner], b.impl) THEN r
  ELSE IF b.impl = throwing THEN Throw(r.w, "acquireError")
  ELSE [w |-> [r.w EXCEPT
                 !.disposers[b.owner] =
                    Append(@, [name |-> b.impl, inst |-> r.val[1]]),
                 !.insts[r.val[1]].acq = "pending"],
        val |-> r.val]

\* ObjectFactory.models: an entry is written when a wrapper is constructed
\* and never deleted or replaced, so models[name] is the wrapper that was
\* constructed under that name, if any.
Models(is) ==
  [name \in {ClassName(is[n].type) : n \in {m \in 1..Len(is) : is[m].type \in FactoryClasses}}
     |-> CHOOSE n \in 1..Len(is) :
           /\ is[n].type \in FactoryClasses /\ ClassName(is[n].type) = name
           /\ \A m \in 1..n - 1 :
                ~(is[m].type \in FactoryClasses /\ ClassName(is[m].type) = name)]

\* ObjectFactory.get(Class).  The wrapper is stored in models before
\* initialize() and onInitialized() are called on it; throwing names the
\* class whose initialize() throws on this call.  val is the wrapper whose
\* Object is returned.
ObjectFactoryGet(w, Class, throwing) ==
  LET name == ClassName(Class)
      n == Len(w.insts) + 1
  IN IF name \in DOMAIN Models(w.insts)
     THEN [w |-> w, val |-> <<Models(w.insts)[name]>>]
     ELSE IF Class = throwing
     THEN Throw([w EXCEPT !.insts = Append(@, [NewInstance(Class, 0) EXCEPT
                                                !.calls = <<"initialize">>])],
                "initializeError")
     ELSE [w |-> [w EXCEPT !.insts = Append(@, [NewInstance(Class, 0) EXCEPT
                                      !.calls = <<"initialize", "onInitialized">>])],
           val |-> <<n>>]

RECURSIVE KernelGet(_, _, _), ResolveParams(_, _, _, _)

\* kernel.get(id).  inversify plans the whole request first (every identifier
\* of the plan needs exactly one binding), then resolves it.  val is the
\* sequence of resource instances the resolved object refers to (the instance
\* itself for a resource, a ScopeContext or a constant value; the wrapper
\* for the Object an ObjectWrapper binding produces).
KernelGet(w, id, throwing) ==
  IF Len(w.kernel[id]) # 1 THEN Throw(w, "resolveError")
  ELSE LET b == w.kernel[id][1] IN
    IF b.type = "DynamicValue" THEN DynamicValue(w, b, throwing)
    ELSE IF b.type = "ConstantValue" THEN [w |-> w, val |-> <<b.cache>>]
    ELSE IF b.type = "ObjectWrapper" THEN ObjectFactoryGet(w, b.impl, throwing)
    ELSE IF ParamTypes(b.impl) = <<>> THEN
      IF b.impl \in ResourceClasses \cup {ScopeContextId} THEN GetInstance(w, id)
      ELSE [w |-> w, val |-> <<>>]
    ELSE IF \E i \in 1..Len(ParamTypes(b.impl)) :
               Len(w.kernel[ParamTypes(b.impl)[i]]) # 1
         THEN Throw(w, "resolveError")
         ELSE ResolveParams(w, ParamTypes(b.impl), throwing, <<>>)

ResolveParams(w, params, throwing, acc) ==
  IF params = <<>> THEN [w |-> w, val |-> acc]
  ELSE LET r == KernelGet(w, Head(params), throwing) IN
       IF Thrown(r.w) THEN r
       ELSE ResolveParams(r.w, Tail(params), throwing, acc \o r.val)

RECURSIVE InjectScopeParameters(_, _, _, _)
\* this.injections.map(identifier => this.kernel.get(identifier))
InjectScopeParameters(w, ids, throwing, acc) ==
  IF ids = <<>> THEN [w |-> w, val |-> acc]
  ELSE LET r == KernelGet(w, Head(ids), throwing) IN
       IF Thrown(r.w) THEN [w |-> r.w, val |-> <<>>]
       ELSE InjectScopeParameters(r.w, Tail(ids), throwing,
                                  Append(acc, [id |-> Head(ids), res |-> r.val]))

\* Mutant of BindScopeContext: the binding is not put in singleton scope.
BindScopeContextTransient(k, s) ==
  KBind(k, ScopeContextId, Binding("Instance", ScopeContextId, "Transient", s))

\* kernel.bind(ScopeContext).to(ScopeContext).inSingletonScope()
BindScopeContext(k, s) ==
  KBind(k, ScopeContextId, Binding("Instance", ScopeContextId, "Singleton", s))

RECURSIVE BindScopeResourcesEager(_, _, _)
\* Mutant of BindScopeResources: every registered resource is constructed and
\* handed to its disposerFactory when the overlay is bound.
BindScopeResourcesEager(w, s, rs) ==
  IF rs = <<>> THEN w
  ELSE LET name == Head(rs)
           n == Len(w.insts) + 1
           k1 == KBind(w.kernel, InstanceBindName(name),
                       [Binding("Instance", name, "Singleton", s) EXCEPT !.cache = n])
           k2 == KBind(k1, name, Binding("DynamicValue", name, "Transient", s))
       IN BindScopeResourcesEager(
            [w EXCEPT !.kernel = k2,
                      !.insts = Append(@, [NewInstance(name, s) EXCEPT !.acq = "pending"]),
                      !.disposers[s] = Append(@, [name |-> name, inst |-> n])],
            s, Tail(rs))

RECURSIVE BindScopeResources(_, _, _)
\* this.scopeResources.forEach(resource => { bind name@instance; bind name })
BindScopeResources(w, s, rs) ==
  IF rs = <<>> THEN w
  ELSE LET name == Head(rs)
           k1 == KBind(w.kernel, InstanceBindName(name),
                       Binding("Instance", name, "Singleton", s))
           k2 == KBind(k1, name, Binding("DynamicValue", name, "Transient", s))
       IN BindScopeResources([w EXCEPT !.kernel = k2], s, Tail(rs))

\* ---------------------------------------------------------- ScopeContext
\* class ScopeContext { private context = {} }.  The context object is a
\* plain object: a function from its own property names to their values.
\* this.context.hasOwnProperty(name) looks hasOwnProperty up on the context
\* object first, so an own property of that name, holding a value that is
\* no function, makes the call throw a TypeError.
CallsOwnProperty(context) == "hasOwnProperty" \in DOMAIN context

\* setOnce(name, value): throws if name is set, else stores value.
SetOnce(context, name, value) ==
  IF CallsOwnProperty(context) THEN [context |-> context, err |-> "TypeError"]
  ELSE IF name \in DOMAIN context
    THEN [context |-> context, err |-> "setOnlyOnce"]
    ELSE [context |-> (name :> value) @@ context, err |-> ""]

\* get(name): throws if name was not set, else returns the stored value.
Get(context, name) ==
  IF CallsOwnProperty(context) THEN [val |-> "", err |-> "TypeError"]
  ELSE IF name \notin DOMAIN context THEN [val |-> "", err |-> "notSet"]
  ELSE [val |-> context[name], err |-> ""]

\* The data objects given to context(data): sequences of properties
\* [k, v] in property order.  A number is written as its decimal string.
PropertyOf(data, name) ==
  IF \E i \in 1..Len(data) : data[i].k = name
  THEN data[CHOOSE i \in 1..Len(data) : data[i].k = name].v
  ELSE "undefined"

\* _.forEach(collection, iteratee) of lodash: a collection with a length
\* property that is a valid array length is walked as an array, by the
\* indices below its length; any other object by its own properties.
ForEach(data) ==
  IF PropertyOf(data, "length") = "1"
  THEN <<[k |-> "0", v |-> PropertyOf(data, "0")]>>
  ELSE data

RECURSIVE SetAll(_, _, _)
\* (value, name) => { scopeContext.setOnce(name, value); } for each pair
SetAll(w, n, pairs) ==
  IF pairs = <<>> THEN w
  ELSE LET r == SetOnce(w.insts[n].context, Head(pairs).k, Head(pairs).v) IN
       IF r.err # "" THEN [w EXCEPT !.thrown = "contextError"]
       ELSE SetAll([w EXCEPT !.insts[n].context = r.context], n, Tail(pairs))

\* if (this.objToBindScopeContext) { let scopeContext =
\* this.kernel.get(ScopeContext); _.forEach(...) }.  obj is <<>> when
\* context(data) was not called, else <<data>>.
PopulateScopeContext(w, obj) ==
  IF obj = <<>> THEN w
  ELSE LET r == KernelGet(w, ScopeContextId, "none") IN
       IF Thrown(r.w) THEN r.w
       ELSE SetAll(r.w, r.val[1], ForEach(obj[1]))

\* ----------------------------------------------------------------- Init
\* new Di.Container(): an empty kernel, no scope resources; no Scope yet.
Init ==
  /\ kernel = [id \in KernelIds |-> <<>>]
  /\ snapshots = <<>>
  /\ scopeResources = <<>>
  /\ phase = [s \in Scopes |-> "none"]
  /\ injections = [s \in Scopes |-> <<>>]
  /\ disposers = [s \in Scopes |-> <<>>]
  /\ injected = [s \in Scopes |-> <<>>]
  /\ insts = <<>>
  /\ idx = [s \in Scopes |-> 0]
  /\ task = [s \in Scopes |-> "none"]
  /\ result = [s \in Scopes |-> "none"]
  /\ uncaught = {}
  /\ objToBindScopeContext = [s \in Scopes |-> <<>>]
  /\ boundConstants = <<>>
  /\ callArgs = [s \in Scopes |-> <<>>]
  /\ methodArgs = [s \in Scopes |-> <<>>]
  /\ reruns = [s \in Scopes |-> 0]

\* ------------------------------------------------------------- Container
\* bindTransientClass(aClass): unbind aClass if bound, then bind(aClass).to(aClass)
BindTransientClass(aClass) ==
  /\ kernel' = KBind(IF IsBound(kernel, aClass) THEN KUnbind(kernel, aClass)
                                                ELSE kernel,
                     aClass, Binding("Instance", aClass, "Transient", 0))
  /\ UNCHANGED <<snapshots, scopeResources, phase, injections, disposers,
                 injected, insts, idx, task, result, uncaught>>
  /\ UNCHANGED xvars

\* Mutant of ToConstantValue: an identifier that is bound keeps its binding.
ToConstantValueKeepsFirst(k, identifier, n) ==
  IF IsBound(k, identifier) THEN k
  ELSE KBind(k, identifier,
             [Binding("ConstantValue", identifier, "Transient", 0)
                EXCEPT !.cache = n])

\* if (this.kernel.isBound(identifier)) this.kernel.unbind(identifier);
\* this.kernel.bind(identifier).toConstantValue(value): n is the value
ToConstantValue(k, identifier, n) ==
  KBind(IF IsBound(k, identifier) THEN KUnbind(k, identifier) ELSE k,
        identifier,
        [Binding("ConstantValue", identifier, "Transient", 0) EXCEPT !.cache = n])

\* bindConstant(identifier, value): the value is an object the caller made
\* for this call; boundConstants.push(identifier) comes last.
BindConstant(identifier) ==
  /\ Len(boundConstants) < MaxBoundConstants
  /\ insts' = Append(insts, NewInstance(identifier, 0))
  /\ kernel' = ToConstantValue(kernel, identifier, Len(insts) + 1)
  /\ boundConstants' = Append(boundConstants, identifier)
  /\ UNCHANGED <<snapshots, scopeResources, phase, injections, disposers,
                 injected, idx, task, result, uncaught,
                 objToBindScopeContext, callArgs, methodArgs, reruns>>

\* bindObjectWrapper(aClass):
\* kernel.bind(aClass).toDynamicValue(() => ObjectFactory.get(aClass))
BindObjectWrapper(aClass) ==
  /\ Len(kernel[aClass]) < MaxWrapperBindings
  /\ kernel' = KBind(kernel, aClass, Binding("ObjectWrapper", aClass, "Transient", 0))
  /\ UNCHANGED <<snapshots, scopeResources, phase, injections, disposers,
                 injected, insts, idx, task, result, uncaught, xvars>>

\* bindScopeResource(aClass, disposerFactory): push onto scopeResources
BindScopeResource(aClass) ==
  /\ Len(scopeResources) < MaxScopeResources
  /\ scopeResources' = Append(scopeResources, aClass)
  /\ UNCHANGED <<kernel, snapshots, phase, injections, disposers, injected,
                 insts, idx, task, result, uncaught>>
  /\ UNCHANGED xvars

\* scope(): new Scope(this.kernel, this.scopeResources).  Scope objects are
\* numbered in the order scope() returns them.
NewScope(s) ==
  /\ phase[s] = "none"
  /\ \A t \in Scopes : t < s => phase[t] # "none"
  /\ phase' = [phase EXCEPT ![s] = "created"]
  /\ UNCHANGED <<kernel, snapshots, scopeResources, injections, disposers,
                 injected, insts, idx, task, result, uncaught>>
  /\ UNCHANGED xvars

\* ----------------------------------------------------------------- Scope
\* inject(...args): this.injections = args
Inject(s, args) ==
  /\ phase[s] = "created"
  /\ injections' = [injections EXCEPT ![s] = args]
  /\ UNCHANGED <<kernel, snapshots, scopeResources, phase, disposers, injected,
                 insts, idx, task, result, uncaught>>
  /\ UNCHANGED xvars

\* context(data): this.objToBindScopeContext = data
Context(s, data) ==
  /\ phase[s] = "created"
  /\ objToBindScopeContext' = [objToBindScopeContext EXCEPT ![s] = <<data>>]
  /\ UNCHANGED <<kernel, snapshots, scopeResources, phase, injections,
                 disposers, injected, insts, idx, task, result, uncaught,
                 boundConstants, callArgs, methodArgs, reruns>>

\* The synchronous part of run(task): snapshot, bindScopeContext,
\* bindScopeResources, injectScopeParameters, restore, Promise.using(...).
\* An exception of the resolution leaves run() at that statement.
Run(s, throwing) ==
  /\ phase[s] = "created"
  /\ LET snaps == Snapshot(kernel, snapshots)
         w0 == [kernel |-> BindScopeContext(kernel, s), disposers |-> disposers,
                insts |-> insts, thrown |-> ""]
         wc == PopulateScopeContext(w0, objToBindScopeContext[s])
         w1 == IF Thrown(wc) THEN wc
               ELSE BindScopeResources(wc, s, scopeResources)
         r == IF Thrown(w1) THEN [w |-> w1, val |-> <<>>]
              ELSE InjectScopeParameters(w1, injections[s], throwing, <<>>)
     IN /\ disposers' = r.w.disposers
        /\ insts' = r.w.insts
        /\ IF Thrown(r.w)
           THEN /\ kernel' = r.w.kernel
                /\ snapshots' = snaps
                /\ phase' = [phase EXCEPT ![s] = "threw"]
                /\ result' = [result EXCEPT ![s] = r.w.thrown]
                /\ UNCHANGED injected
           ELSE /\ kernel' = Restore(r.w.kernel, snaps).kernel
                /\ snapshots' = Restore(r.w.kernel, snaps).snapshots
                /\ phase' = [phase EXCEPT ![s] = "acquiring"]
                /\ injected' = [injected EXCEPT ![s] = r.val]
                /\ UNCHANGED result
  /\ UNCHANGED <<scopeResources, injections, idx, task, uncaught>>
  /\ UNCHANGED xvars

\* ------------------------------------------------- Promise.using(...)
\* Promise.using(disposerArray, fn) waits until every disposer's promise has
\* settled; if one rejected it skips fn, otherwise it calls fn; when fn's
\* promise has settled it runs the disposers of the fulfilled resources one
\* after the other, and only then settles with fn's outcome.
Acq(s, i) == insts[disposers[s][i].inst].acq

\* Mutant of AllSettled: using does not wait for the acquisitions.
NoWaitForAcquire(s) == TRUE

AllSettled(s) == \A i \in 1..Len(disposers[s]) : Acq(s, i) # "pending"

SomeRejected(s) == \E i \in 1..Len(disposers[s]) : Acq(s, i) = "rejected"

\* The acquisition started by disposerFactory settles:
\* Bluebird.resolve(resource.acquire()) fulfils or rejects.
AcquireSettle(s, i, outcome) ==
  /\ phase[s] \in {"acquiring", "threw"}
  /\ i \in 1..Len(disposers[s])
  /\ Acq(s, i) = "pending"
  /\ insts' = [insts EXCEPT ![disposers[s][i].inst].acq = outcome]
  /\ UNCHANGED <<kernel, snapshots, scopeResources, phase, injections,
                 disposers, injected, idx, task, result, uncaught>>
  /\ UNCHANGED xvars

\* () => Promise.resolve(task.apply(null, injectedObjects))
InvokeTask(s) ==
  /\ phase[s] = "acquiring"
  /\ AllSettled(s)
  /\ ~SomeRejected(s)
  /\ phase' = [phase EXCEPT ![s] = "task"]
  /\ task' = [task EXCEPT ![s] = "running"]
  /\ UNCHANGED <<kernel, snapshots, scopeResources, injections, disposers,
                 injected, insts, idx, result, uncaught>>
  /\ UNCHANGED xvars

\* An acquisition rejected: the task is skipped and cleanup starts.
AcquireFailed(s) ==
  /\ phase[s] = "acquiring"
  /\ AllSettled(s)
  /\ SomeRejected(s)
  /\ phase' = [phase EXCEPT ![s] = "disposing"]
  /\ task' = [task EXCEPT ![s] = "skipped"]
  /\ idx' = [idx EXCEPT ![s] = 1]
  /\ UNCHANGED <<kernel, snapshots, scopeResources, injections, disposers,
                 injected, insts, result, uncaught>>
  /\ UNCHANGED xvars

\* The task returns a value, throws, or its promise fulfils or rejects.
TaskSettle(s, outcome) ==
  /\ phase[s] = "task"
  /\ phase' = [phase EXCEPT ![s] = "disposing"]
  /\ task' = [task EXCEPT ![s] = outcome]
  /\ idx' = [idx EXCEPT ![s] = 1]
  /\ UNCHANGED <<kernel, snapshots, scopeResources, injections, disposers,
                 injected, insts, result, uncaught>>
  /\ UNCHANGED xvars

\* One turn of the dispose iterator on a fulfilled resource: the release
\* action runs.  If it throws or rejects, bluebird rethrows the error from a
\* timer, stops iterating and never settles the promise of using.
Dispose(s, outcome) ==
  /\ phase[s] = "disposing"
  /\ idx[s] <= Len(disposers[s])
  /\ Acq(s, idx[s]) = "fulfilled"
  /\ insts' = [insts EXCEPT ![disposers[s][idx[s]].inst].releases = @ + 1]
  /\ IF outcome = "ok"
     THEN /\ idx' = [idx EXCEPT ![s] = @ + 1]
          /\ UNCHANGED <<phase, uncaught>>
     ELSE /\ phase' = [phase EXCEPT ![s] = "hung"]
          /\ uncaught' = uncaught \cup {s}
          /\ UNCHANGED idx
  /\ UNCHANGED <<kernel, snapshots, scopeResources, injections, disposers,
                 injected, task, result>>
  /\ UNCHANGED xvars

\* One turn of the dispose iterator on a rejected resource: nothing to release.
DisposeSkip(s) ==
  /\ phase[s] = "disposing"
  /\ idx[s] <= Len(disposers[s])
  /\ Acq(s, idx[s]) = "rejected"
  /\ idx' = [idx EXCEPT ![s] = @ + 1]
  /\ UNCHANGED <<kernel, snapshots, scopeResources, phase, injections,
                 disposers, injected, insts, task, result, uncaught>>
  /\ UNCHANGED xvars

\* What the promise of using settles with, given what became of the task.
UsingOutcome(t) ==
  IF t = "value" THEN "value"
  ELSE IF t = "error" THEN "taskError"
  ELSE "acquireError"

\* Every disposer has run: run's promise settles.
Settle(s) ==
  /\ phase[s] = "disposing"
  /\ idx[s] > Len(disposers[s])
  /\ phase' = [phase EXCEPT ![s] = "settled"]
  /\ result' = [result EXCEPT ![s] = UsingOutcome(task[s])]
  /\ UNCHANGED <<kernel, snapshots, scopeResources, injections, disposers,
                 injected, insts, idx, task, uncaught>>
  /\ UNCHANGED xvars

\* ------------------------------------------------------------------ Next
Next ==
  \/ \E c \in TransientClasses : BindTransientClass(c)
  \/ \E c \in ResourceClasses : BindScopeResource(c)
  \/ \E s \in Scopes : NewScope(s)
  \/ \E s \in Scopes, args \in SeqsUpTo(InjectableIds, MaxInject) : Inject(s, args)
  \/ \E s \in Scopes, t \in ResourceClasses \cup {"none"} : Run(s, t)
  \/ \E s \in Scopes, i \in 1..MaxScopeResources,
        o \in {"fulfilled", "rejected"} : AcquireSettle(s, i, o)
  \/ \E s \in Scopes : InvokeTask(s)
  \/ \E s \in Scopes : AcquireFailed(s)
  \/ \E s \in Scopes, o \in {"value", "error"} : TaskSettle(s, o)
  \/ \E s \in Scopes, o \in {"ok", "fail"} : Dispose(s, o)
  \/ \E s \in Scopes : DisposeSkip(s)
  \/ \E s \in Scopes : Settle(s)

Spec == Init /\ [][Next]_vars

\* ------------------------------------------------ run() in other callers
\* The resolution half of the synchronous part of run() for scope s with the
\* declared identifiers ids and the context data obj, as in Run: [w, val]
\* after bindScopeContext, bindScopeResources and injectScopeParameters.
RunSync(s, ids, obj, throwing) ==
  LET w0 == [kernel |-> BindScopeContext(kernel, s), disposers |-> disposers,
             insts |-> insts, thrown |-> ""]
      wc == PopulateScopeContext(w0, obj)
      w1 == IF Thrown(wc) THEN wc
            ELSE BindScopeResources(wc, s, scopeResources)
  IN IF Thrown(w1) THEN [w |-> w1, val |-> <<>>]
     ELSE InjectScopeParameters(w1, ids, throwing, <<>>)

\* ------------------------------------------------------ @Di.scope methods
\* An argument or an injected object, as the method sees it.  A value the
\* caller passed is written like an injected object that refers to nothing.
Arg(v) == [id |-> v, res |-> <<>>]

ArgValues == {"a", "b"}
\* The IslandInjectionTag metadata of the decorated methods: parameter
\* decorators run from the last parameter to the first, so
\* method(s, @inject foo: Foo, @inject(Bar) bar) has the tags
\* [{index: 2, id: Bar}, {index: 1, id: Foo}] (positions count from 1 here).
InjectionTags ==
  { <<[index |-> 3, id |-> "Bar"], [index |-> 2, id |-> "Foo"]>>,
    <<[index |-> 1, id |-> "Foo"]>>,
    <<[index |-> 2, id |-> "Bar"]>>,
    <<>> }

\* args[p], undefined beyond the arguments passed
ArgAt(args, p) == IF p <= Len(args) THEN args[p] ELSE Arg("undefined")

RECURSIVE ApplyTagsInOrder(_, _, _, _)
\* Mutant of ApplyTags: the i-th injected object goes to position i.
ApplyTagsInOrder(args, tags, objs, i) ==
  IF i > Len(tags) THEN args
  ELSE ApplyTagsInOrder([args EXCEPT ![i] = objs[i]], tags, objs, i + 1)

RECURSIVE ApplyTags(_, _, _, _)
\* injectionTags.forEach((tag, i) => { args[tag.index] = injectedObjects[i]; })
ApplyTags(args, tags, objs, i) ==
  IF i > Len(tags) THEN args
  ELSE ApplyTags([args EXCEPT ![tags[i].index] = objs[i]], tags, objs, i + 1)

\* A call of a decorated method with the arguments args: the wrapper reads
\* the tags and runs container.scope().inject(...ids).run(...) in one
\* synchronous stretch.
CallScoped(s, tags, args) ==
  /\ phase[s] = "none"
  /\ \A t \in Scopes : t < s => phase[t] # "none"
  /\ callArgs' = [callArgs EXCEPT ![s] = [tags |-> tags, args |-> args]]
  /\ injections' = [injections EXCEPT ![s] = [i \in 1..Len(tags) |-> tags[i].id]]
  /\ LET snaps == Snapshot(kernel, snapshots)
         r == RunSync(s, [i \in 1..Len(tags) |-> tags[i].id], <<>>, "none")
     IN /\ disposers' = r.w.disposers
        /\ insts' = r.w.insts
        /\ IF Thrown(r.w)
           THEN /\ kernel' = r.w.kernel
                /\ snapshots' = snaps
                /\ phase' = [phase EXCEPT ![s] = "threw"]
                /\ result' = [result EXCEPT ![s] = r.w.thrown]
                /\ UNCHANGED injected
           ELSE /\ kernel' = Restore(r.w.kernel, snaps).kernel
                /\ snapshots' = Restore(r.w.kernel, snaps).snapshots
                /\ phase' = [phase EXCEPT ![s] = "acquiring"]
                /\ injected' = [injected EXCEPT ![s] = r.val]
                /\ UNCHANGED result
  /\ UNCHANGED <<scopeResources, idx, task, uncaught, objToBindScopeContext,
                 boundConstants, methodArgs, reruns>>

\* The task of the wrapper: it writes the injected objects into args and
\* calls method.apply(this, args).
InvokeMethod(s) ==
  /\ phase[s] = "acquiring"
  /\ AllSettled(s)
  /\ ~SomeRejected(s)
  /\ phase' = [phase EXCEPT ![s] = "task"]
  /\ task' = [task EXCEPT ![s] = "running"]
  /\ methodArgs' = [methodArgs EXCEPT ![s] =
        ApplyTags([p \in 1..MaxArgs |-> ArgAt(callArgs[s].args, p)],
                  callArgs[s].tags, injected[s], 1)]
  /\ UNCHANGED <<kernel, snapshots, scopeResources, injections, disposers,
                 injected, insts, idx, result, uncaught,
                 objToBindScopeContext, boundConstants, callArgs, reruns>>

\* A new container; Foo and Bar get bound by and by.
InitScoped ==
  /\ kernel = [id \in KernelIds |-> <<>>]
  /\ snapshots = <<>>
  /\ scopeResources = <<>>
  /\ phase = [s \in Scopes |-> "none"]
  /\ injections = [s \in Scopes |-> <<>>]
  /\ disposers = [s \in Scopes |-> <<>>]
  /\ injected = [s \in Scopes |-> <<>>]
  /\ insts = <<>>
  /\ idx = [s \in Scopes |-> 0]
  /\ task = [s \in Scopes |-> "none"]
  /\ result = [s \in Scopes |-> "none"]
  /\ uncaught = {}
  /\ objToBindScopeContext = [s \in Scopes |-> <<>>]
  /\ boundConstants = <<>>
  /\ callArgs = [s \in Scopes |-> [tags |-> <<>>, args |-> <<>>]]
  /\ methodArgs = [s \in Scopes |-> <<>>]
  /\ reruns = [s \in Scopes |-> 0]

NextScoped ==
  \/ \E c \in MethodClasses : BindTransientClass(c)
  \/ \E s \in Scopes, tags \in InjectionTags,
        args \in SeqsUpTo({Arg(v) : v \in ArgValues}, MaxArgs) :
          CallScoped(s, tags, args)
  \/ \E s \in Scopes : InvokeMethod(s)
  \/ \E s \in Scopes, o \in {"value", "error"} : TaskSettle(s, o)
  \/ \E s \in Scopes : Settle(s)

SpecScoped == InitScoped /\ [][NextScoped]_vars

\* ---------------------------------------------- run() on a used Scope
\* run(task) called again on a Scope whose first run has settled.  The
\* Scope object keeps injections, objToBindScopeContext and disposers; the
\* promise of the first run is history.
Rerun(s, throwing) ==
  /\ phase[s] = "settled"
  /\ reruns[s] < MaxReruns
  /\ reruns' = [reruns EXCEPT ![s] = @ + 1]
  /\ LET snaps == Snapshot(kernel, snapshots)
         r == RunSync(s, injections[s], objToBindScopeContext[s], throwing)
     IN /\ disposers' = r.w.disposers
        /\ insts' = r.w.insts
        /\ IF Thrown(r.w)
           THEN /\ kernel' = r.w.kernel
                /\ snapshots' = snaps
                /\ phase' = [phase EXCEPT ![s] = "threw"]
                /\ result' = [result EXCEPT ![s] = r.w.thrown]
                /\ UNCHANGED injected
           ELSE /\ kernel' = Restore(r.w.kernel, snaps).kernel
                /\ snapshots' = Restore(r.w.kernel, snaps).snapshots
                /\ phase' = [phase EXCEPT ![s] = "acquiring"]
                /\ injected' = [injected EXCEPT ![s] = r.val]
                /\ result' = [result EXCEPT ![s] = "none"]
  /\ idx' = [idx EXCEPT ![s] = 0]
  /\ task' = [task EXCEPT ![s] = "none"]
  /\ UNCHANGED <<scopeResources, injections, uncaught, objToBindScopeContext,
                 boundConstants, callArgs, methodArgs>>

\* One turn of the dispose iterator on a disposer that has been run before.
\* bluebird clears a Disposer's function when it has run; depending on the
\* release the stale disposer throws, which ends as in a failed release, or
\* runs the release action again, which is Dispose.
DisposeUsed(s) ==
  /\ phase[s] = "disposing"
  /\ idx[s] <= Len(disposers[s])
  /\ Acq(s, idx[s]) = "fulfilled"
  /\ insts[disposers[s][idx[s]].inst].releases > 0
  /\ phase' = [phase EXCEPT ![s] = "hung"]
  /\ uncaught' = uncaught \cup {s}
  /\ UNCHANGED <<kernel, snapshots, scopeResources, injections, disposers,
                 injected, insts, idx, task, result, xvars>>

\* The container after bindTransientClass(Baz) and
\* bindScopeResource(Resource, disposerFactory).
InitRerun ==
  /\ kernel = KBind([id \in KernelIds |-> <<>>], "Baz",
                    Binding("Instance", "Baz", "Transient", 0))
  /\ snapshots = <<>>
  /\ scopeResources = <<"Resource">>
  /\ phase = [s \in Scopes |-> "none"]
  /\ injections = [s \in Scopes |-> <<>>]
  /\ disposers = [s \in Scopes |-> <<>>]
  /\ injected = [s \in Scopes |-> <<>>]
  /\ insts = <<>>
  /\ idx = [s \in Scopes |-> 0]
  /\ task = [s \in Scopes |-> "none"]
  /\ result = [s \in Scopes |-> "none"]
  /\ uncaught = {}
  /\ objToBindScopeContext = [s \in Scopes |-> <<>>]
  /\ boundConstants = <<>>
  /\ callArgs = [s \in Scopes |-> <<>>]
  /\ methodArgs = [s \in Scopes |-> <<>>]
  /\ reruns = [s \in Scopes |-> 0]

NextRerun ==
  \/ \E s \in Scopes : NewScope(s)
  \/ \E s \in Scopes, args \in SeqsUpTo({"Baz", "Resource"}, MaxInject) : Inject(s, args)
  \/ \E s \in Scopes, t \in {"Resource", "none"} : Run(s, t)
  \/ \E s \in Scopes, t \in {"Resource", "none"} : Rerun(s, t)
  \/ \E s \in Scopes, i \in 1..MaxScopeResources,
        o \in {"fulfilled", "rejected"} : AcquireSettle(s, i, o)
  \/ \E s \in Scopes : InvokeTask(s)
  \/ \E s \in Scopes : AcquireFailed(s)
  \/ \E s \in Scopes, o \in {"value", "error"} : TaskSettle(s, o)
  \/ \E s \in Scopes, o \in {"ok", "fail"} : Dispose(s, o)
  \/ \E s \in Scopes : DisposeUsed(s)
  \/ \E s \in Scopes : DisposeSkip(s)
  \/ \E s \in Scopes : Settle(s)

SpecRerun == InitRerun /\ [][NextRerun]_vars

\* ---------------------------------------------------- ObjectFactory
\* ObjectFactory.get(Class) called directly, outside any scope.  When
\* initialize() throws the call throws; the wrapper stays in models.
FactoryGet(Class, throwing) ==
  /\ insts' = ObjectFactoryGet([kernel |-> kernel, disposers |-> disposers,
                                insts |-> insts, thrown |-> ""],
                               Class, throwing).w.insts
  /\ UNCHANGED <<kernel, snapshots, scopeResources, phase, injections,
                 disposers, injected, idx, task, result, uncaught, xvars>>

\* The container after bindObjectWrapper was called once for each class.
InitFactory ==
  /\ kernel = [id \in KernelIds |->
                 IF id \in FactoryClasses
                 THEN <<Binding("ObjectWrapper", id, "Transient", 0)>>
                 ELSE <<>>]
  /\ snapshots = <<>>
  /\ scopeResources = <<>>
  /\ phase = [s \in Scopes |-> "none"]
  /\ injections = [s \in Scopes |-> <<>>]
  /\ disposers = [s \in Scopes |-> <<>>]
  /\ injected = [s \in Scopes |-> <<>>]
  /\ insts = <<>>
  /\ idx = [s \in Scopes |-> 0]
  /\ task = [s \in Scopes |-> "none"]
  /\ result = [s \in Scopes |-> "none"]
  /\ uncaught = {}
  /\ objToBindScopeContext = [s \in Scopes |-> <<>>]
  /\ boundConstants = <<>>
  /\ callArgs = [s \in Scopes |-> <<>>]
  /\ methodArgs = [s \in Scopes |-> <<>>]
  /\ reruns = [s \in Scopes |-> 0]

\* Scopes declare ObjectWrapper classes only, so no acquisition or release
\* happens here and tasks return.
NextFactory ==
  \/ \E c \in FactoryClasses : \E t \in {c, "none"} : FactoryGet(c, t)
  \/ \E s \in Scopes : NewScope(s)
  \/ \E s \in Scopes, args \in SeqsUpTo(FactoryClasses, MaxInject) : Inject(s, args)
  \/ \E s \in Scopes, t \in FactoryClasses \cup {"none"} : Run(s, t)
  \/ \E s \in Scopes : InvokeTask(s)
  \/ \E s \in Scopes : TaskSettle(s, "value")
  \/ \E s \in Scopes : Settle(s)

SpecFactory == InitFactory /\ [][NextFactory]_vars

\* ------------------------------------------- scopes with context data
\* The container after the registrations of the test suite that matter to
\* the ScopeContext: bindTransientClass(FooFoo) and
\* bindScopeResource(Resource, disposerFactory).
InitCtx ==
  /\ kernel = KBind([id \in KernelIds |-> <<>>], "FooFoo",
                    Binding("Instance", "FooFoo", "Transient", 0))
  /\ snapshots = <<>>
  /\ scopeResources = <<"Resource">>
  /\ phase = [s \in Scopes |-> "none"]
  /\ injections = [s \in Scopes |-> <<>>]
  /\ disposers = [s \in Scopes |-> <<>>]
  /\ injected = [s \in Scopes |-> <<>>]
  /\ insts = <<>>
  /\ idx = [s \in Scopes |-> 0]
  /\ task = [s \in Scopes |-> "none"]
  /\ result = [s \in Scopes |-> "none"]
  /\ uncaught = {}
  /\ objToBindScopeContext = [s \in Scopes |-> <<>>]
  /\ boundConstants = <<>>
  /\ callArgs = [s \in Scopes |-> <<>>]
  /\ methodArgs = [s \in Scopes |-> <<>>]
  /\ reruns = [s \in Scopes |-> 0]

CtxInjectableIds == ContextClasses \cup {ScopeContextId, "Resource"}
ContextNames == {"fooField", "hasOwnProperty"}
ContextValues == {"v2"}
\* { fooField: 'v1' }, { hasOwnProperty: 'v1', fooField: 'v2' } and
\* { length: 1 }
ContextData ==
  { <<[k |-> "fooField", v |-> "v1"]>>,
    <<[k |-> "hasOwnProperty", v |-> "v1"], [k |-> "fooField", v |-> "v2"]>>,
    <<[k |-> "length", v |-> "1"]>> }

\* The ScopeContext objects the task of scope s got hold of, as a declared
\* identifier or inside an object that took one in its constructor.
ContextsOf(s) ==
  {n \in 1..Len(insts) :
     /\ insts[n].type = ScopeContextId
     /\ \E i \in 1..Len(injected[s]) :
          \E j \in 1..Len(injected[s][i].res) : injected[s][i].res[j] = n}

\* The running task calls setOnce(name, value) on a ScopeContext it holds.
TaskSetOnce(s, n, name, value) ==
  /\ phase[s] = "task"
  /\ n \in ContextsOf(s)
  /\ insts' = [insts EXCEPT ![n].context = SetOnce(@, name, value).context]
  /\ UNCHANGED <<kernel, snapshots, scopeResources, phase, injections,
                 disposers, injected, idx, task, result, uncaught, xvars>>

\* Tasks return and releases succeed here; what a failing acquisition, task
\* or release does is explored by Spec.
NextCtx ==
  \/ \E s \in Scopes : NewScope(s)
  \/ \E s \in Scopes, data \in ContextData : Context(s, data)
  \/ \E s \in Scopes, args \in SeqsUpTo(CtxInjectableIds, MaxInject) : Inject(s, args)
  \/ \E s \in Scopes : Run(s, "none")
  \/ \E s \in Scopes, i \in 1..MaxScopeResources : AcquireSettle(s, i, "fulfilled")
  \/ \E s \in Scopes : InvokeTask(s)
  \/ \E s \in Scopes, n \in 1..Len(insts), name \in ContextNames,
        value \in ContextValues : TaskSetOnce(s, n, name, value)
  \/ \E s \in Scopes : TaskSettle(s, "value")
  \/ \E s \in Scopes : Dispose(s, "ok")
  \/ \E s \in Scopes : Settle(s)

SpecCtx == InitCtx /\ [][NextCtx]_vars

\* ------------------------------------------- constants and wrappers
\* The container after bindScopeResource(Resource, disposerFactory).
InitConst ==
  /\ kernel = [id \in KernelIds |-> <<>>]
  /\ snapshots = <<>>
  /\ scopeResources = <<"Resource">>
  /\ phase = [s \in Scopes |-> "none"]
  /\ injections = [s \in Scopes |-> <<>>]
  /\ disposers = [s \in Scopes |-> <<>>]
  /\ injected = [s \in Scopes |-> <<>>]
  /\ insts = <<>>
  /\ idx = [s \in Scopes |-> 0]
  /\ task = [s \in Scopes |-> "none"]
  /\ result = [s \in Scopes |-> "none"]
  /\ uncaught = {}
  /\ objToBindScopeContext = [s \in Scopes |-> <<>>]
  /\ boundConstants = <<>>
  /\ callArgs = [s \in Scopes |-> <<>>]
  /\ methodArgs = [s \in Scopes |-> <<>>]
  /\ reruns = [s \in Scopes |-> 0]

ConstInjectableIds == ConstantIds \cup ValueClasses

\* getConstantValue(identifier): this.kernel.get(identifier).  <<>> stands
\* for the exception of a kernel that has no or several bindings.
GetConstantValue(identifier) ==
  KernelGet([kernel |-> kernel, disposers |-> disposers, insts |-> insts,
             thrown |-> ""], identifier, "none").val

\* Scopes declare constants and Koo only, so no acquisition or release
\* happens here and tasks return.
NextConst ==
  \/ \E id \in ConstantIds : BindConstant(id)
  \/ \E c \in ValueClasses : BindTransientClass(c)
  \/ \E c \in WrapperClasses : BindObjectWrapper(c)
  \/ \E s \in Scopes : NewScope(s)
  \/ \E s \in Scopes, args \in SeqsUpTo(ConstInjectableIds, MaxInject) : Inject(s, args)
  \/ \E s \in Scopes : Run(s, "none")
  \/ \E s \in Scopes : InvokeTask(s)
  \/ \E s \in Scopes : TaskSettle(s, "value")
  \/ \E s \in Scopes : Settle(s)

SpecConst == InitConst /\ [][NextConst]_vars

\* ============================================================== claims
Range(f) == {f[i] : i \in DOMAIN f}

\* run() is over for its caller: its promise settled, or it threw.
Completed(s) == phase[s] \in {"settled", "threw"}
\* No action of the scope's run is enabled any more: run() is over, or the
\* dispose iterator stopped on a failed release.
AtRest(s) == phase[s] \in {"settled", "threw", "hung"}
\* run() got past its resolution phase.
Resolved(s) == phase[s] \in {"acquiring", "task", "disposing", "settled", "hung"}

Releases(s, i) == insts[disposers[s][i].inst].releases
\* The resource instances the objects handed to the task refer to.
ResolvedInsts(s) == UNION {Range(injected[s][i].res) : i \in 1..Len(injected[s])}
\* The instances a scope's disposers were made for.
DisposerInsts(s) == {disposers[s][i].inst : i \in 1..Len(disposers[s])}
\* The bindings a scope's run put into the kernel.
OverlayOf(s) ==
  {id \in KernelIds : \E i \in 1..Len(kernel[id]) : kernel[id][i].owner = s}
\* A step of the run of scope s other than the resolution failing.
RunStep(s) ==
  /\ <<phase[s], idx[s], task[s], result[s]>>' # <<phase[s], idx[s], task[s], result[s]>>
  /\ phase'[s] \in {"acquiring", "task", "disposing", "settled", "hung"}

\* C1: when run has completed (its promise settled or it threw), every
\* resource of the scope whose disposerFactory was called - and whose own
\* acquisition did not fail - has had its release action invoked exactly once.
C1_ReleasedOnceWhenRunCompleted ==
  \A s \in Scopes : Completed(s) =>
    \A i \in 1..Len(disposers[s]) :
      Acq(s, i) # "rejected" => Releases(s, i) = 1

\* C2: no step of a run whose resolution completes (the synchronous part of
\* run that ends with restore, then every step up to the settlement of run's
\* promise) changes the set of bound identifiers of the kernel, and none of
\* the run's own bindings (ScopeContext, <name>@instance, <name>) is left.
C2_RunLeavesRegistryUnchanged ==
  [][\A s \in Scopes : RunStep(s) =>
        /\ BoundIds(kernel') = BoundIds(kernel)
        /\ snapshots' = snapshots
        /\ OverlayOf(s)' = {}]_vars

C2_Witness ==
  \E s \in Scopes :
    /\ phase[s] = "settled"
    /\ Len(disposers[s]) = 2
    /\ BoundIds(kernel) = {"Baz"}
    /\ snapshots = <<>>

\* C3: when run fails in its resolution phase, the kernel's bound identifiers
\* are those of before the call and no snapshot is left pending.
C3_RollbackOnResolutionFailure ==
  [][\A s \in Scopes : phase[s] = "created" /\ phase'[s] = "threw" =>
        /\ BoundIds(kernel') = BoundIds(kernel)
        /\ snapshots' = snapshots]_vars

\* C4: when run has completed, the objects of the scope that refer to a
\* resource type all refer to one instance of it, the scope constructed and
\* handed to disposerFactory at most one instance per type, and the release
\* action of each (acquisition not failed) has been invoked exactly once.
C4_OneInstanceReleasedOnce ==
  \A s \in Scopes : Completed(s) =>
    /\ \A m, n \in ResolvedInsts(s) : insts[m].type = insts[n].type => m = n
    /\ \A i, j \in 1..Len(disposers[s]) :
         disposers[s][i].name = disposers[s][j].name => i = j
    /\ \A i \in 1..Len(disposers[s]) :
         Acq(s, i) # "rejected" => Releases(s, i) = 1

\* C5: a scope whose run is called after another scope's run has settled is
\* handed only instances the earlier scope never held and that were never
\* released.
C5_SequentialScopesDistinct ==
  [][\A s, t \in Scopes :
        (s # t /\ phase[s] = "settled" /\ phase[t] = "created"
           /\ phase'[t] # "created") =>
          ResolvedInsts(t)' \cap (ResolvedInsts(s) \cup DisposerInsts(s)) = {}]_vars

C5_Witness ==
  \E s, t \in Scopes :
    /\ s # t /\ phase[s] = "settled" /\ phase[t] = "settled"
    /\ \E m \in ResolvedInsts(s), n \in ResolvedInsts(t) :
         /\ m # n /\ insts[m].type = insts[n].type
         /\ insts[m].releases = 1 /\ insts[n].releases = 1


\* C6: while and after the task runs every acquisition of the scope is
\* fulfilled; no release action has run unless the task has completed (or was
\* skipped because an acquisition failed); and once run's promise has settled
\* every acquired resource has been released.
C6_AcquireTaskReleaseSettleOrder ==
  \A s \in Scopes :
    /\ task[s] \in {"running", "value", "error"} =>
         \A i \in 1..Len(disposers[s]) : Acq(s, i) = "fulfilled"
    /\ (\E i \in 1..Len(disposers[s]) : Releases(s, i) > 0) =>
         task[s] \in {"value", "error", "skipped"}
    /\ phase[s] = "settled" =>
         \A i \in 1..Len(disposers[s]) :
           Acq(s, i) = "fulfilled" => Releases(s, i) = 1

C6_Witness ==
  \E s \in Scopes :
    /\ phase[s] = "settled" /\ task[s] = "value"
    /\ Len(disposers[s]) = 2
    /\ \A i \in 1..2 : Releases(s, i) = 1

\* C7: once the task has completed and the run is at rest, run's promise has
\* settled with the task's outcome: fulfilled with its value, or rejected with
\* its error.
C7_RunOutcomeIsTaskOutcome ==
  \A s \in Scopes : AtRest(s) =>
    /\ task[s] = "value" => result[s] = "value"
    /\ task[s] = "error" => result[s] = "taskError"

\* C8: when an acquire step of the scope has failed (a disposerFactory threw,
\* or an acquisition rejected) and the run is at rest, the task was not
\* invoked, run failed, and every resource of the scope that was acquired has
\* been released exactly once.
AcquireFailedIn(s) ==
  \/ result[s] = "acquireError"
  \/ \E i \in 1..Len(disposers[s]) : Acq(s, i) = "rejected"

C8_AcquireFailureReleasesAcquired ==
  \A s \in Scopes : (AtRest(s) /\ AcquireFailedIn(s)) =>
    /\ task[s] \in {"none", "skipped"}
    /\ result[s] \notin {"none", "value"}
    /\ \A i \in 1..Len(disposers[s]) :
         Acq(s, i) = "fulfilled" => Releases(s, i) = 1

\* C9: a scope constructs instances of, and holds disposers for, only the
\* resource types its declared identifiers depend on.
Touched(ids) ==
  UNION {IF ids[i] \in ResourceClasses THEN {ids[i]}
         ELSE Range(ParamTypes(ids[i])) : i \in 1..Len(ids)}

C9_UntouchedResourceUntouched ==
  /\ \A n \in 1..Len(insts) :
       insts[n].type \in Touched(injections[insts[n].owner])
  /\ \A s \in Scopes : \A i \in 1..Len(disposers[s]) :
       disposers[s][i].name \in Touched(injections[s])

C9_Witness ==
  \E s \in Scopes :
    /\ phase[s] = "settled"
    /\ Len(scopeResources) = 2 /\ scopeResources[1] # scopeResources[2]
    /\ Len(disposers[s]) = 1
    /\ Releases(s, 1) = 1
    /\ \A n \in 1..Len(insts) : insts[n].type = disposers[s][1].name

\* C10: when a release action of the scope has failed and the run is at
\* rest, run's promise has rejected (the failure and a task error reach the
\* caller) and every acquired resource of the scope has been released.
C10_ReleaseFailureSurfaced ==
  \A s \in Scopes : (s \in uncaught /\ AtRest(s)) =>
    /\ result[s] # "none"
    /\ \A i \in 1..Len(disposers[s]) :
         Acq(s, i) = "fulfilled" => Releases(s, i) = 1

\* ------------------------------------------------------------ ScopeContext
\* The ScopeContext objects constructed so far.
ScopeContexts == {n \in 1..Len(insts) : insts[n].type = ScopeContextId}

\* C11: a ScopeContext is write-once per key.  On every ScopeContext a scope
\* holds, setOnce of a name that is set fails with the set-only-once error
\* and leaves the context as it is, and get of that name returns the stored
\* value; setOnce of a name that is not set stores the value, which get then
\* returns, and get of that name fails with the not-set error.
C11_WriteOncePerKey ==
  \A n \in ScopeContexts, name \in ContextNames, value \in ContextValues :
    LET c == insts[n].context
        r == SetOnce(c, name, value)
    IN /\ name \in DOMAIN c =>
            /\ r = [context |-> c, err |-> "setOnlyOnce"]
            /\ Get(c, name) = [val |-> c[name], err |-> ""]
       /\ name \notin DOMAIN c =>
            /\ r.err = ""
            /\ Get(r.context, name) = [val |-> value, err |-> ""]
            /\ Get(c, name).err = "notSet"

\* C12: each run has exactly one ScopeContext.  Every object of a scope that
\* was declared as ScopeContext or took one in its constructor holds the one
\* ScopeContext made by that scope's run, two scopes never hold the same
\* ScopeContext, and a ScopeContext only changes in the run or the task of
\* the scope that made it.
C12_OneScopeContextPerRun ==
  /\ [](\A s \in Scopes :
         /\ Cardinality({n \in ScopeContexts : insts[n].owner = s}) <= 1
         /\ \A i \in 1..Len(injected[s]) :
              injected[s][i].id \in ContextClasses \cup {ScopeContextId} =>
                /\ Len(injected[s][i].res) = 1
                /\ injected[s][i].res[1] \in ScopeContexts
                /\ insts[injected[s][i].res[1]].owner = s
         /\ \A t \in Scopes \ {s} : ContextsOf(s) \cap ContextsOf(t) = {})
  /\ [][\A n \in ScopeContexts :
          insts'[n].context # insts[n].context =>
            phase[insts[n].owner] = "task"]_vars

\* Two tasks are running, the first scope declared a FooFoo and the
\* ScopeContext, and a key set in its ScopeContext is not set in the other's.
C12_Witness ==
  \E s \in Scopes : \E t \in Scopes \ {s} :
    /\ phase[s] = "task" /\ phase[t] = "task"
    /\ Len(injected[s]) = 2
    /\ injected[s][1].id = "FooFoo" /\ injected[s][2].id = ScopeContextId
    /\ \E n \in ContextsOf(s), m \in ContextsOf(t) :
         /\ "fooField" \in DOMAIN insts[n].context
         /\ "fooField" \notin DOMAIN insts[m].context

\* C13: when context(data) was called and the synchronous part of run is
\* over, the scope's ScopeContext returns data[k] from get(k) and refuses
\* setOnce(k, _) for every key k of data; when populating the context failed,
\* run has failed and the scope has constructed no resource and holds no
\* disposer.
C13_ContextSetBeforeResolution ==
  \A s \in Scopes :
    /\ (phase[s] = "acquiring" /\ objToBindScopeContext[s] # <<>>) =>
          \E n \in ScopeContexts :
            /\ insts[n].owner = s
            /\ LET data == objToBindScopeContext[s][1] IN
               \A i \in 1..Len(data) :
                 /\ Get(insts[n].context, data[i].k) =
                       [val |-> data[i].v, err |-> ""]
                 /\ \A value \in ContextValues :
                      SetOnce(insts[n].context, data[i].k, value).err # ""
    /\ (phase[s] = "threw" /\ result[s] = "contextError") =>
          /\ disposers[s] = <<>>
          /\ \A n \in 1..Len(insts) :
               insts[n].owner = s => insts[n].type \notin ResourceClasses

\* ------------------------------------------------------- registrations
\* An identifier is registered: bound in the kernel or pushed as a scope
\* resource.
Registered(id) == IsBound(kernel, id) \/ id \in Range(scopeResources)

\* C14: registering an identifier again is safe.  When run is called on a
\* kernel that holds no overlay binding and no pending snapshot, and every
\* declared identifier and every constructor parameter type of it is
\* registered, the resolution does not fail on the kernel's bindings.
C14_ReRegistrationNeverAmbiguous ==
  [][\A s \in Scopes :
       ( /\ phase[s] = "created" /\ phase'[s] = "threw"
         /\ snapshots = <<>>
         /\ \A t \in Scopes : OverlayOf(t) = {}
         /\ \A i \in 1..Len(injections[s]) :
              /\ Registered(injections[s][i])
              /\ \A j \in 1..Len(ParamTypes(injections[s][i])) :
                   Registered(ParamTypes(injections[s][i])[j]) )
       => result'[s] # "resolveError"]_vars

\* ----------------------------------------------------- concurrent scopes
\* The run of scope s is pending: its synchronous part returned and its
\* promise has not settled.
Pending(s) == phase[s] \in {"acquiring", "task", "disposing"}

\* C17: when run is called on a scope while the run of another scope is
\* pending, the kernel holds no binding of the other scope before and after
\* the call, everything the call resolves and every disposer it makes is the
\* calling scope's own, and the other scope's objects and disposers are left
\* as they were.
C17_OverlappingRunsDoNotInterleave ==
  [][\A t \in Scopes : (phase[t] = "created" /\ phase'[t] # "created") =>
       \A s \in Scopes \ {t} : Pending(s) =>
         /\ OverlayOf(s) = {}
         /\ OverlayOf(s)' = {}
         /\ \A n \in ResolvedInsts(t)' \cup DisposerInsts(t)' :
              insts'[n].owner = t
         /\ injected'[s] = injected[s]
         /\ disposers'[s] = disposers[s]]_vars

\* Scope t resolved a resource while the task of scope s, which resolved one
\* before, was running.
C17_Witness ==
  \E s \in Scopes : \E t \in Scopes \ {s} :
    /\ phase[s] = "task" /\ phase[t] = "acquiring"
    /\ \E n \in ResolvedInsts(s), m \in ResolvedInsts(t) :
         n < m /\ insts[n].type = insts[m].type

\* C18: two scopes never hold the same resource instance, as an object of
\* the task or behind a disposer; the instances behind a scope's disposers
\* are that scope's own; and while a scope's task runs none of the instances
\* its objects refer to has been released.
C18_NoInstanceSharedAcrossScopes ==
  \A s \in Scopes :
    /\ \A t \in Scopes \ {s} :
         (ResolvedInsts(s) \cup DisposerInsts(s))
           \cap (ResolvedInsts(t) \cup DisposerInsts(t)) = {}
    /\ \A n \in DisposerInsts(s) : insts[n].owner = s
    /\ task[s] = "running" =>
         \A n \in ResolvedInsts(s) : insts[n].releases = 0

\* Scope s, which resolved its resource after scope t resolved one of the
\* same type, has settled and released it while the task of t still runs.
C18_Witness ==
  \E s \in Scopes : \E t \in Scopes \ {s} :
    /\ phase[s] = "settled" /\ task[t] = "running"
    /\ \E n \in ResolvedInsts(s), m \in ResolvedInsts(t) :
         /\ m < n /\ insts[n].type = insts[m].type
         /\ insts[n].releases = 1 /\ insts[m].releases = 0

\* ------------------------------------------------------------- constants
\* The value given to the latest bindConstant(identifier, value) call.
LatestConstant(identifier) ==
  CHOOSE n \in 1..Len(insts) :
    /\ insts[n].type = identifier /\ insts[n].owner = 0
    /\ \A m \in 1..Len(insts) :
         (insts[m].type = identifier /\ insts[m].owner = 0) => m <= n

\* C15: getConstantValue(id) returns the value of the latest
\* bindConstant(id, value), and so does a run, at a declared position for id
\* and in the Koo it constructs from UninjectableClass; a run that declares
\* constants and Koo only constructs no instance and makes no disposer.
C15_ConstantResolvesToBoundValue ==
  /\ [](\A id \in ConstantIds :
         id \in Range(boundConstants) =>
           GetConstantValue(id) = <<LatestConstant(id)>>)
  /\ [][\A s \in Scopes :
          (phase[s] = "created" /\ phase'[s] = "acquiring") =>
            /\ \A i \in 1..Len(injected'[s]) :
                 LET o == injected'[s][i] IN
                 /\ o.id \in ConstantIds => o.res = <<LatestConstant(o.id)>>
                 /\ o.id = "Koo" => o.res = <<LatestConstant("UninjectableClass")>>
            /\ insts' = insts
            /\ disposers'[s] = <<>>]_vars

\* The task of a scope runs with the constant bound under UninjectableClass
\* and a Koo holding the same value, after the constant was bound twice and
\* with a scope resource registered.
C15_Witness ==
  \E s \in Scopes :
    /\ phase[s] = "task"
    /\ scopeResources # <<>>
    /\ boundConstants = <<"UninjectableClass", "UninjectableClass">>
    /\ Len(injected[s]) = 2
    /\ injected[s][1].id = "UninjectableClass" /\ injected[s][2].id = "Koo"
    /\ injected[s][1].res = <<2>> /\ injected[s][2].res = <<2>>

\* C20: the kernel holds at most one binding for every identifier.
C20_AtMostOneBindingPerIdentifier ==
  \A id \in KernelIds : Len(kernel[id]) <= 1

\* ------------------------------------------------------ @Di.scope methods
\* C16: once the wrapper of a Di.scope-decorated method has called the
\* method, the scope made for the call declared the tagged identifiers, the
\* method got at every tagged position the object resolved for that tag's
\* identifier, whatever the caller passed there, and at every other position
\* the caller's argument; when the call's promise has settled it settled as
\* the method did.
C16_ScopedMethodArguments ==
  \A s \in Scopes : phase[s] \in {"task", "disposing", "settled"} =>
    LET c == callArgs[s] IN
    /\ injections[s] = [i \in 1..Len(c.tags) |-> c.tags[i].id]
    /\ \A i \in 1..Len(c.tags) :
         /\ injected[s][i].id = c.tags[i].id
         /\ methodArgs[s][c.tags[i].index] = injected[s][i]
    /\ \A p \in 1..MaxArgs :
         (\A i \in 1..Len(c.tags) : c.tags[i].index # p) =>
           methodArgs[s][p] = ArgAt(c.args, p)
    /\ phase[s] = "settled" =>
         result[s] = (IF task[s] = "value" THEN "value" ELSE "taskError")

\* method('a', 'b') of the test suite's TestScopeMethod is running: it got
\* 'a', a Foo in place of 'b', and a Bar.
C16_Witness ==
  \E s \in Scopes :
    /\ phase[s] = "task"
    /\ callArgs[s].args = <<Arg("a"), Arg("b")>>
    /\ Len(callArgs[s].tags) = 2
    /\ methodArgs[s] = <<Arg("a"), Arg("Foo"), Arg("Bar")>>

\* -------------------------------------------------- run() on a used Scope
\* C19: a second run on a Scope works with a fresh disposer set.  When run
\* is called on a Scope whose first run has settled and its resolution
\* completes, every resource instance it resolved is a new one that has a
\* disposer of its own with its acquisition started, and the Scope holds no
\* disposer of an instance of the first run.
C19_RerunFreshDisposers ==
  [][\A s \in Scopes : (phase[s] = "settled" /\ phase'[s] = "acquiring") =>
       /\ \A n \in ResolvedInsts(s)' :
            /\ n > Len(insts)
            /\ n \in DisposerInsts(s)'
            /\ insts'[n].acq = "pending"
       /\ \A n \in DisposerInsts(s)' : n > Len(insts)]_vars

\* ---------------------------------------------------- the constant list
\* getConstantIdentifierList(): return this.boundConstants
GetConstantIdentifierList == boundConstants

\* The identifiers the kernel holds a constant for.
BoundConstantIds ==
  {id \in KernelIds :
     \E i \in 1..Len(kernel[id]) : kernel[id][i].type = "ConstantValue"}

\* C21: getConstantIdentifierList contains every identifier that is bound
\* to a constant exactly once and nothing else, so its length is the number
\* of distinct constants bound.
C21_ConstantListHasEachIdOnce ==
  LET list == GetConstantIdentifierList IN
  /\ \A id \in KernelIds :
       Cardinality({i \in 1..Len(list) : list[i] = id}) =
         (IF id \in BoundConstantIds THEN 1 ELSE 0)
  /\ Len(list) = Cardinality(BoundConstantIds)

\* ---------------------------------------------------------- ObjectFactory
\* The ObjectWrapper instances constructed so far.
Wrappers == {n \in 1..Len(insts) : insts[n].type \in FactoryClasses}

\* initialize() and then onInitialized() were each called once on wrapper n.
FullyInitialized(n) == insts[n].calls = <<"initialize", "onInitialized">>

\* C22: ObjectFactory.get memoizes per wrapper class.  Every wrapper class
\* has been constructed at most once; the object a scope got for a wrapper
\* class, and the object a get call for the class would return now, is that
\* of a wrapper of this very class on which initialize and then
\* onInitialized have each been called once.
C22_FactoryMemoizesPerClass ==
  /\ \A c \in FactoryClasses :
       Cardinality({n \in Wrappers : insts[n].type = c}) <= 1
  /\ \A s \in Scopes : \A i \in 1..Len(injected[s]) :
       injected[s][i].id \in FactoryClasses =>
         /\ insts[injected[s][i].res[1]].type = injected[s][i].id
         /\ FullyInitialized(injected[s][i].res[1])
  /\ \A c \in FactoryClasses :
       LET r == ObjectFactoryGet([kernel |-> kernel, disposers |-> disposers,
                                  insts |-> insts, thrown |-> ""], c, "none")
       IN /\ r.w.insts[r.val[1]].type = c
          /\ r.w.insts[r.val[1]].calls = <<"initialize", "onInitialized">>
====
